---- MODULE Spec2Model ----
(***************************************************************************)
(* Blogicum (blog/views.py, blog/forms.py, blog/admin.py, migration 0001): *)
(* the stored entities, the request handlers of blog/views.py and the      *)
(* administrative deletions, as a state machine.  Every handler is one     *)
(* action; what it answers is kept in resp.                                *)
(***************************************************************************)
EXTENDS Integers, Sequences, FiniteSets, TLC

\* ------------------------------------------------------------------ bounds
NumUsers == 2
MaxPosts == 2
MaxComments == 2
MaxCategories == 1
MaxLocations == 1
MaxDate == 2
MaxText == 2
MaxListed == 12
MaxPageParam == 3

\* -------------------------------------------------------- program constants
PAGINATOR_VALUE == 10

NULL == 0
Anonymous == 0
Users == 1..NumUsers
Viewers == {Anonymous} \cup Users
Dates == 1..MaxDate
Texts == 1..MaxText

VARIABLES posts, comments, categories, locations,
          nextPost, nextComment, nextCategory, nextLocation, now, resp

db == <<posts, comments, categories, locations,
        nextPost, nextComment, nextCategory, nextLocation>>
vars == <<posts, comments, categories, locations,
          nextPost, nextComment, nextCategory, nextLocation, now, resp>>

Empty == [x \in {} |-> NULL]
Without(f, k) == [x \in DOMAIN f \ {k} |-> f[x]]
With(f, k, v) == [x \in DOMAIN f \cup {k} |-> IF x = k THEN v ELSE f[x]]

\* The value of request.GET.get("page"): absent, a text that is no number, or
\* an integer.
NoPage == [t |-> "missing", n |-> 0]
PageParams == {NoPage, [t |-> "text", n |-> 0]}
                \cup {[t |-> "int", n |-> k] : k \in (-1)..MaxPageParam}

\* A submission with no field filled in.
NoData == [is_published |-> FALSE, pub_date |-> 0, category |-> NULL,
           location |-> NULL, text |-> 0, author |-> NULL]

\* What a handler answers.  kind: render | redirect | not_found | none;
\* to: the template rendered or the view redirected to; id: the id given to
\* that view; url_post: the post id of a comment URL; data: the submission; page, number, num_pages, items: the
\* page parameter and the Page object of a listing.
Response(op, viewer, arg, kind, to, id) ==
    [op |-> op, viewer |-> viewer, arg |-> arg, kind |-> kind, to |-> to,
     id |-> id, url_post |-> NULL, data |-> NoData,
     page |-> NoPage, number |-> 0, num_pages |-> 0, items |-> <<>>]

NoResponse == Response("none", Anonymous, NULL, "none", "none", NULL)

\* @login_required / LoginRequiredMixin
redirect_to_login(op, viewer, arg) ==
    Response(op, viewer, arg, "redirect", "login", NULL)
Http404(op, viewer, arg) ==
    Response(op, viewer, arg, "not_found", "404", NULL)

\* ------------------------------------------------------------- querysets
get_post_filter ==
    {p \in DOMAIN posts :
        /\ posts[p].pub_date <= now
        /\ posts[p].is_published
        /\ posts[p].category \in DOMAIN categories
        /\ categories[posts[p].category].is_published}

comment_count(p) == Cardinality({c \in DOMAIN comments : comments[c].post = p})

Row(p) == [id |-> p, pub_date |-> posts[p].pub_date,
           comment_count |-> comment_count(p)]

\* .order_by("-pub_date").annotate(comment_count=Count("comments")): the rows
\* of S from the latest pub_date down; rows of equal pub_date come in storage
\* (id) order.  scan walks the dates downwards and, within a date, the ids
\* upwards.
RECURSIVE scan(_, _, _)
scan(S, d, i) ==
    IF d < 1 THEN <<>>
    ELSE IF i >= nextPost THEN scan(S, d - 1, 1)
    ELSE IF i \in S /\ posts[i].pub_date = d
         THEN <<Row(i)>> \o scan(S, d, i + 1)
         ELSE scan(S, d, i + 1)

order_by_pub_date(S) == scan(S, MaxDate, 1)

\* ------------------------------------------------------------- Paginator
num_pages(list) ==
    LET hits == IF Len(list) > 1 THEN Len(list) ELSE 1
    IN (hits + PAGINATOR_VALUE - 1) \div PAGINATOR_VALUE

validate_number(p, list) ==
    IF p.t # "int" THEN "PageNotAnInteger"
    ELSE IF p.n < 1 THEN "EmptyPage"
    ELSE IF p.n > num_pages(list) THEN "EmptyPage"
    ELSE "ok"

\* Paginator.page whose pages start one row early.
page_overlap(list, number) ==
    LET bottom == (number - 1) * (PAGINATOR_VALUE - 1)
        top == IF bottom + PAGINATOR_VALUE >= Len(list) THEN Len(list)
               ELSE bottom + PAGINATOR_VALUE
    IN SubSeq(list, bottom + 1, top)

page(list, number) ==
    LET bottom == (number - 1) * PAGINATOR_VALUE
        top == IF bottom + PAGINATOR_VALUE >= Len(list) THEN Len(list)
               ELSE bottom + PAGINATOR_VALUE
    IN SubSeq(list, bottom + 1, top)

\* get_page that answers EmptyPage with the first page.
get_page_first(p, list) ==
    IF p.t = "int" /\ p.n >= 1 /\ p.n <= num_pages(list) THEN p.n ELSE 1

\* Paginator.get_page: the number of the page served.
get_page(p, list) ==
    LET v == validate_number(p, list)
    IN IF v = "PageNotAnInteger" THEN 1
       ELSE IF v = "EmptyPage" THEN num_pages(list)
       ELSE p.n

Listing(op, viewer, arg, template, list, p) ==
    [Response(op, viewer, arg, "render", template, NULL) EXCEPT
        !.page = p,
        !.number = get_page(p, list),
        !.num_pages = num_pages(list),
        !.items = page(list, get_page(p, list))]

\* --------------------------------------------------------- read handlers
index(viewer, p) ==
    IF viewer = Anonymous THEN redirect_to_login("index", viewer, NULL)
    ELSE Listing("index", viewer, NULL, "blog/index.html",
                 order_by_pub_date(get_post_filter), p)

post_detail(viewer, id) ==
    IF viewer = Anonymous THEN redirect_to_login("post_detail", viewer, id)
    ELSE IF id \notin get_post_filter THEN Http404("post_detail", viewer, id)
    ELSE Response("post_detail", viewer, id, "render", "blog/detail.html", id)

category_posts(viewer, slug, p) ==
    IF viewer = Anonymous
    THEN redirect_to_login("category_posts", viewer, slug)
    ELSE IF ~(slug \in DOMAIN categories /\ categories[slug].is_published)
    THEN Http404("category_posts", viewer, slug)
    ELSE Listing("category_posts", viewer, slug, "blog/category.html",
                 order_by_pub_date(
                    {q \in get_post_filter : posts[q].category = slug}), p)

\* get_profile with the unfiltered queryset for every logged-in viewer.
get_profile_any_user(viewer, username, p) ==
    LET queryset == IF viewer \in Users THEN DOMAIN posts
                    ELSE get_post_filter
    IN IF username \notin Users THEN Http404("get_profile", viewer, username)
       ELSE Listing("get_profile", viewer, username, "blog/profile.html",
                    order_by_pub_date(
                       {q \in queryset : posts[q].author = username}), p)

get_profile(viewer, username, p) ==
    LET queryset == IF viewer = username THEN DOMAIN posts
                    ELSE get_post_filter
    IN IF username \notin Users THEN Http404("get_profile", viewer, username)
       ELSE Listing("get_profile", viewer, username, "blog/profile.html",
                    order_by_pub_date(
                       {q \in queryset : posts[q].author = username}), p)

\* ------------------------------------------------------------------ forms

\* What a client may submit for a post: every field of the model, the author
\* included.
PostData == [is_published : BOOLEAN, pub_date : Dates,
             category : 0..MaxCategories, location : 0..MaxLocations,
             author : Users]

\* What the response record keeps of a submission.
Submitted(data) ==
    [NoData EXCEPT !.is_published = data.is_published,
                   !.pub_date = data.pub_date,
                   !.category = data.category,
                   !.location = data.location,
                   !.author = data.author]

\* PostForm: Meta.exclude = ("author",); the submitted author is not read.
PostForm(data) ==
    [NoData EXCEPT !.is_published = data.is_published,
                   !.pub_date = data.pub_date,
                   !.category = data.category,
                   !.location = data.location]

\* Post.category is null=True without blank=True: the form requires one of
\* the stored categories; Post.location is blank=True, null=True.
PostForm_is_valid(form) ==
    /\ form.category \in DOMAIN categories
    /\ form.location \in DOMAIN locations \cup {NULL}

\* CommentForm: Meta.fields = ("text",); text 0 is the empty text.
CommentForm(text) == [NoData EXCEPT !.text = text]
CommentForm_is_valid(form) == form.text \in Texts

PostInstance(form, author) ==
    [author |-> author, is_published |-> form.is_published,
     pub_date |-> form.pub_date, category |-> form.category,
     location |-> form.location]

redirect(op, viewer, arg, to, id) ==
    Response(op, viewer, arg, "redirect", to, id)
render_form(op, viewer, arg, template) ==
    Response(op, viewer, arg, "render", template, NULL)

\* ----------------------------------------------------- on_delete policies
\* Comment.post: CASCADE
cascade_comments(pk) ==
    [c \in {x \in DOMAIN comments : comments[x].post # pk} |-> comments[c]]

\* Post.category with on_delete=CASCADE.
cascade_category(c) ==
    [p \in {x \in DOMAIN posts : posts[x].category # c} |-> posts[p]]

\* Post.category: SET_NULL
set_null_category(c) ==
    [p \in DOMAIN posts |->
        IF posts[p].category = c THEN [posts[p] EXCEPT !.category = NULL]
        ELSE posts[p]]

\* Post.location: SET_NULL
set_null_location(l) ==
    [p \in DOMAIN posts |->
        IF posts[p].location = l THEN [posts[p] EXCEPT !.location = NULL]
        ELSE posts[p]]

\* ------------------------------------------------------ mutating handlers
\* PostCreateView whose form_valid leaves the author to the submission.
PostCreateView_submitted_author(viewer, data) ==
    /\ UNCHANGED <<comments, categories, locations,
                   nextComment, nextCategory, nextLocation, now>>
    /\ IF viewer = Anonymous
       THEN /\ resp' = redirect_to_login("post_create", viewer, NULL)
            /\ UNCHANGED <<posts, nextPost>>
       ELSE IF ~PostForm_is_valid(PostForm(data))
       THEN /\ resp' = [render_form("post_create", viewer, NULL,
                                    "blog/create.html")
                           EXCEPT !.data = Submitted(data)]
            /\ UNCHANGED <<posts, nextPost>>
       ELSE /\ nextPost <= MaxPosts
            /\ posts' = With(posts, nextPost,
                             PostInstance(PostForm(data), data.author))
            /\ nextPost' = nextPost + 1
            /\ resp' = [redirect("post_create", viewer, NULL,
                                 "profile", viewer)
                           EXCEPT !.data = Submitted(data)]

PostCreateView(viewer, data) ==
    LET form == PostForm(data)
    IN /\ UNCHANGED <<comments, categories, locations,
                      nextComment, nextCategory, nextLocation, now>>
       /\ IF viewer = Anonymous
          THEN /\ resp' = redirect_to_login("post_create", viewer, NULL)
               /\ UNCHANGED <<posts, nextPost>>
          ELSE IF ~PostForm_is_valid(form)
          THEN /\ resp' = [render_form("post_create", viewer, NULL,
                                       "blog/create.html")
                              EXCEPT !.data = Submitted(data)]
               /\ UNCHANGED <<posts, nextPost>>
          ELSE /\ nextPost <= MaxPosts
               /\ posts' = With(posts, nextPost, PostInstance(form, viewer))
               /\ nextPost' = nextPost + 1
               /\ resp' = [redirect("post_create", viewer, NULL,
                                    "profile", viewer)
                              EXCEPT !.data = Submitted(data)]

PostUpdateView(viewer, pk, data) ==
    LET form == PostForm(data)
    IN /\ UNCHANGED <<comments, categories, locations, nextPost,
                      nextComment, nextCategory, nextLocation, now>>
       /\ IF pk \notin DOMAIN posts
          THEN /\ resp' = Http404("post_edit", viewer, pk)
               /\ UNCHANGED posts
          ELSE IF posts[pk].author # viewer
          THEN /\ resp' = redirect("post_edit", viewer, pk, "post_detail", pk)
               /\ UNCHANGED posts
          ELSE IF ~PostForm_is_valid(form)
          THEN /\ resp' = [render_form("post_edit", viewer, pk,
                                       "blog/create.html")
                              EXCEPT !.data = Submitted(data)]
               /\ UNCHANGED posts
          ELSE /\ posts' = [posts EXCEPT ![pk] = PostInstance(form, viewer)]
               /\ resp' = [redirect("post_edit", viewer, pk,
                                    "post_detail", pk)
                              EXCEPT !.data = Submitted(data)]

\* PostDeleteView whose dispatch only asks for a logged-in viewer.
PostDeleteView_any_user(viewer, pk) ==
    /\ UNCHANGED <<categories, locations, nextPost,
                   nextComment, nextCategory, nextLocation, now>>
    /\ IF pk \notin DOMAIN posts
       THEN /\ resp' = Http404("post_delete", viewer, pk)
            /\ UNCHANGED <<posts, comments>>
       ELSE IF viewer = Anonymous
       THEN /\ resp' = redirect("post_delete", viewer, pk, "post_detail", pk)
            /\ UNCHANGED <<posts, comments>>
       ELSE /\ posts' = Without(posts, pk)
            /\ comments' = [c \in {x \in DOMAIN comments :
                                      comments[x].post # pk} |-> comments[c]]
            /\ resp' = redirect("post_delete", viewer, pk, "index", NULL)

PostDeleteView(viewer, pk) ==
    /\ UNCHANGED <<categories, locations, nextPost,
                   nextComment, nextCategory, nextLocation, now>>
    /\ IF pk \notin DOMAIN posts
       THEN /\ resp' = Http404("post_delete", viewer, pk)
            /\ UNCHANGED <<posts, comments>>
       ELSE IF posts[pk].author # viewer
       THEN /\ resp' = redirect("post_delete", viewer, pk, "post_detail", pk)
            /\ UNCHANGED <<posts, comments>>
       ELSE /\ posts' = Without(posts, pk)
            /\ comments' = cascade_comments(pk)
            /\ resp' = redirect("post_delete", viewer, pk, "index", NULL)

CommentCreateView(viewer, pk, text) ==
    LET form == CommentForm(text)
    IN /\ UNCHANGED <<posts, categories, locations, nextPost,
                      nextCategory, nextLocation, now>>
       /\ IF viewer = Anonymous
          THEN /\ resp' = redirect_to_login("comment_create", viewer, pk)
               /\ UNCHANGED <<comments, nextComment>>
          ELSE IF ~CommentForm_is_valid(form)
          THEN /\ resp' = [render_form("comment_create", viewer, pk,
                                       "blog/comment_form.html")
                              EXCEPT !.data = form]
               /\ UNCHANGED <<comments, nextComment>>
          ELSE IF pk \notin DOMAIN posts
          THEN /\ resp' = [Http404("comment_create", viewer, pk)
                              EXCEPT !.data = form]
               /\ UNCHANGED <<comments, nextComment>>
          ELSE /\ nextComment <= MaxComments
               /\ comments' = With(comments, nextComment,
                                   [author |-> viewer, post |-> pk,
                                    text |-> form.text])
               /\ nextComment' = nextComment + 1
               /\ resp' = [redirect("comment_create", viewer, pk,
                                    "post_detail", pk)
                              EXCEPT !.data = form]

CommentUpdateView(viewer, post_id, pk, text) ==
    LET form == CommentForm(text)
    IN /\ UNCHANGED <<posts, categories, locations, nextPost,
                      nextComment, nextCategory, nextLocation, now>>
       /\ IF pk \notin DOMAIN comments
          THEN /\ resp' = [Http404("comment_edit", viewer, pk)
                              EXCEPT !.url_post = post_id]
               /\ UNCHANGED comments
          ELSE IF comments[pk].author # viewer
          THEN /\ resp' = [redirect("comment_edit", viewer, pk,
                                    "post_detail", comments[pk].post)
                              EXCEPT !.url_post = post_id]
               /\ UNCHANGED comments
          ELSE IF ~CommentForm_is_valid(form)
          THEN /\ resp' = [render_form("comment_edit", viewer, pk,
                                       "blog/comment.html")
                              EXCEPT !.url_post = post_id, !.data = form]
               /\ UNCHANGED comments
          ELSE /\ comments' = [comments EXCEPT ![pk].text = form.text]
               /\ resp' = [redirect("comment_edit", viewer, pk,
                                    "post_detail", post_id)
                              EXCEPT !.url_post = post_id, !.data = form]

CommentDeleteView(viewer, post_id, pk) ==
    /\ UNCHANGED <<posts, categories, locations, nextPost,
                   nextComment, nextCategory, nextLocation, now>>
    /\ IF pk \notin DOMAIN comments
       THEN /\ resp' = [Http404("comment_delete", viewer, pk)
                           EXCEPT !.url_post = post_id]
            /\ UNCHANGED comments
       ELSE IF comments[pk].author # viewer
       THEN /\ resp' = [redirect("comment_delete", viewer, pk,
                                 "post_detail", post_id)
                           EXCEPT !.url_post = post_id]
            /\ UNCHANGED comments
       ELSE /\ comments' = Without(comments, pk)
            /\ resp' = [redirect("comment_delete", viewer, pk, "index", NULL)
                           EXCEPT !.url_post = post_id]

\* ------------------------------------------------------------ admin site
Admin(op, arg) == [NoResponse EXCEPT !.op = op, !.arg = arg]

AdminAddCategory(is_published) ==
    /\ nextCategory <= MaxCategories
    /\ categories' = With(categories, nextCategory,
                          [is_published |-> is_published])
    /\ nextCategory' = nextCategory + 1
    /\ resp' = Admin("admin_add_category", nextCategory)
    /\ UNCHANGED <<posts, comments, locations, nextPost, nextComment,
                   nextLocation, now>>

AdminChangeCategory(c, is_published) ==
    /\ c \in DOMAIN categories
    /\ categories' = [categories EXCEPT ![c].is_published = is_published]
    /\ resp' = Admin("admin_change_category", c)
    /\ UNCHANGED <<posts, comments, locations, nextPost, nextComment,
                   nextCategory, nextLocation, now>>

AdminDeleteCategory(c) ==
    /\ c \in DOMAIN categories
    /\ categories' = Without(categories, c)
    /\ posts' = set_null_category(c)
    /\ resp' = Admin("admin_delete_category", c)
    /\ UNCHANGED <<comments, locations, nextPost, nextComment,
                   nextCategory, nextLocation, now>>

AdminAddLocation ==
    /\ nextLocation <= MaxLocations
    /\ locations' = With(locations, nextLocation, [is_published |-> TRUE])
    /\ nextLocation' = nextLocation + 1
    /\ resp' = Admin("admin_add_location", nextLocation)
    /\ UNCHANGED <<posts, comments, categories, nextPost, nextComment,
                   nextCategory, now>>

AdminDeleteLocation(l) ==
    /\ l \in DOMAIN locations
    /\ locations' = Without(locations, l)
    /\ posts' = set_null_location(l)
    /\ resp' = Admin("admin_delete_location", l)
    /\ UNCHANGED <<comments, categories, nextPost, nextComment,
                   nextCategory, nextLocation, now>>

\* datetime.datetime.now() moves on between requests.
Tick ==
    /\ now < MaxDate
    /\ now' = now + 1
    /\ resp' = NoResponse
    /\ UNCHANGED db

Init ==
    /\ posts = Empty /\ comments = Empty
    /\ categories = Empty /\ locations = Empty
    /\ nextPost = 1 /\ nextComment = 1 /\ nextCategory = 1 /\ nextLocation = 1
    /\ now = 1
    /\ resp = NoResponse

PostIds == 1..MaxPosts
CommentIds == 1..MaxComments
Slugs == 1..MaxCategories
Usernames == 1..(NumUsers + 1)

\* --------------------------------------------------------------- requests
\* One request to each URL, its viewer and inputs drawn from the given sets.
Index(VS, PS) ==
    \E v \in VS, p \in PS :
        resp' = index(v, p) /\ UNCHANGED <<db, now>>
PostDetail(VS) ==
    \E v \in VS, id \in PostIds :
        resp' = post_detail(v, id) /\ UNCHANGED <<db, now>>
CategoryPosts(VS, PS) ==
    \E v \in VS, slug \in Slugs, p \in PS :
        resp' = category_posts(v, slug, p) /\ UNCHANGED <<db, now>>
GetProfile(VS, PS) ==
    \E v \in VS, u \in Usernames, p \in PS :
        resp' = get_profile(v, u, p) /\ UNCHANGED <<db, now>>
PostCreate(VS, DS) == \E v \in VS, d \in DS : PostCreateView(v, d)
PostUpdate(VS, DS) ==
    \E v \in VS, pk \in PostIds, d \in DS : PostUpdateView(v, pk, d)
PostDelete(VS) == \E v \in VS, pk \in PostIds : PostDeleteView(v, pk)
CommentCreate(VS, TS) ==
    \E v \in VS, pk \in PostIds, t \in TS : CommentCreateView(v, pk, t)
CommentUpdate(VS, TS) ==
    \E v \in VS, post_id \in PostIds, pk \in CommentIds, t \in TS :
        CommentUpdateView(v, post_id, pk, t)
CommentDelete(VS) ==
    \E v \in VS, post_id \in PostIds, pk \in CommentIds :
        CommentDeleteView(v, post_id, pk)
AddCategory(BS) == \E b \in BS : AdminAddCategory(b)
ChangeCategory == \E c \in Slugs, b \in BOOLEAN : AdminChangeCategory(c, b)
DeleteCategory == \E c \in Slugs : AdminDeleteCategory(c)
AddLocation == AdminAddLocation
DeleteLocation == \E l \in 1..MaxLocations : AdminDeleteLocation(l)

\* ------------------------------------------------- Spec: posts and viewers
\* Browsing and the life of a post, from the empty database: every viewer,
\* every value of is_published, pub_date and category.
BrowseData == {d \in PostData : d.location = NULL /\ d.author = 1}

Next ==
    \/ Index(Viewers, PageParams)
    \/ PostDetail(Viewers)
    \/ CategoryPosts(Viewers, PageParams)
    \/ GetProfile(Viewers, PageParams)
    \/ PostCreate(Viewers, BrowseData)
    \/ PostUpdate(Viewers, BrowseData)
    \/ PostDelete(Viewers)
    \/ AddCategory(BOOLEAN)
    \/ ChangeCategory
    \/ DeleteCategory
    \/ Tick

Spec == Init /\ [][Next]_vars

\* --------------------------------------- GuardSpec: who may change what
\* Every mutating handler of posts and comments, from the empty database;
\* the client also submits an author of its choice.
GuardData == {d \in PostData : d.location = NULL /\ d.pub_date = 1}

NextGuard ==
    \/ PostCreate(Viewers, GuardData)
    \/ PostUpdate(Viewers, GuardData)
    \/ PostDelete(Viewers)
    \/ CommentCreate(Viewers, 0..MaxText)
    \/ CommentUpdate(Viewers, 0..MaxText)
    \/ CommentDelete(Viewers)
    \/ AddCategory({TRUE})

GuardSpec == Init /\ [][NextGuard]_vars

\* ------------------------------------------ StoreSpec: on_delete policies
\* Creation and deletion of posts, comments, categories and locations.
StoreData == {d \in PostData :
                 d.is_published /\ d.pub_date = 1 /\ d.author = 1}

NextStore ==
    \/ PostCreate(Users, StoreData)
    \/ PostDelete(Users)
    \/ CommentCreate(Users, {1})
    \/ CommentDelete(Users)
    \/ AddCategory({TRUE})
    \/ DeleteCategory
    \/ AddLocation
    \/ DeleteLocation

StoreSpec == Init /\ [][NextStore]_vars
\* ----------------------------------------------- PageSpec: the listings
\* The listings of a database that holds up to MaxListed posts: post i has
\* pub_date f[i % 2], posts 1..h are unpublished, every fourth post is user
\* 2's, and post 1 has k comments.
PagePost(i, f, h) ==
    [author |-> IF i % 4 = 0 THEN 2 ELSE 1, is_published |-> i > h,
     pub_date |-> f[i % 2], category |-> 1, location |-> NULL]

InitPage ==
    \E n \in 0..MaxListed, f \in [0..1 -> Dates], h \in 0..1,
       k \in 0..MaxComments :
        /\ posts = [i \in 1..n |-> PagePost(i, f, h)]
        /\ comments = [c \in 1..(IF n = 0 THEN 0 ELSE k) |->
                          [author |-> 2, post |-> 1, text |-> 1]]
        /\ categories = [c \in {1} |-> [is_published |-> TRUE]]
        /\ locations = Empty
        /\ nextPost = n + 1
        /\ nextComment = (IF n = 0 THEN 0 ELSE k) + 1
        /\ nextCategory = 2
        /\ nextLocation = 1
        /\ now = MaxDate
        /\ resp = NoResponse

NextPage ==
    \/ Index(Viewers, PageParams)
    \/ CategoryPosts(Viewers, PageParams)
    \/ GetProfile(Viewers, PageParams)

PageSpec == InitPage /\ [][NextPage]_vars
\* ================================================================ claims
Ids(r) == {r.items[i].id : i \in 1..Len(r.items)}
ListingOps == {"index", "category_posts", "get_profile"}
EditDeleteOps == {"post_edit", "post_delete", "comment_edit", "comment_delete"}
MutatingOps == EditDeleteOps \cup {"post_create", "comment_create"}

\* A post is hidden when it is unpublished, dated after now, or in an
\* unpublished category.
Hidden(p) ==
    \/ ~posts[p].is_published
    \/ posts[p].pub_date > now
    \/ /\ posts[p].category \in DOMAIN categories
       /\ ~categories[posts[p].category].is_published

\* C1: a hidden post is on no page of the global listing, of a category
\* listing or of a profile listing requested by a viewer other than its
\* author (anonymous included), and that viewer's request for its detail
\* page does not render it; both for every request that could be made in
\* the state and for the request that was just answered.
C1_HiddenPostNotShown ==
    /\ \A p \in DOMAIN posts : Hidden(p) =>
         \A v \in Viewers \ {posts[p].author} :
            /\ post_detail(v, p).kind # "render"
            /\ \A pg \in PageParams :
                  /\ p \notin Ids(index(v, pg))
                  /\ \A c \in Slugs : p \notin Ids(category_posts(v, c, pg))
                  /\ \A u \in Usernames : p \notin Ids(get_profile(v, u, pg))
    /\ resp.op \in ListingOps =>
         \A p \in Ids(resp) : Hidden(p) => posts[p].author = resp.viewer
    /\ (resp.op = "post_detail" /\ resp.kind = "render") => ~Hidden(resp.id)

\* C1 witness: another user's profile was listed to an authenticated viewer;
\* the profile's owner has a hidden post and a post that is shown.
C1_Witness ==
    /\ resp.op = "get_profile" /\ resp.kind = "render"
    /\ resp.viewer \in Users /\ resp.viewer # resp.arg
    /\ Len(resp.items) = 1
    /\ \E p \in DOMAIN posts : posts[p].author = resp.arg /\ Hidden(p)

\* C2 (as claimed): the author's request for the detail page of an own post
\* renders it, and every own post is on a page of the author's own profile.
C2_AuthorSeesOwnPost ==
    /\ (/\ resp.op = "post_detail" /\ resp.arg \in DOMAIN posts
        /\ resp.viewer = posts[resp.arg].author)
         => (resp.kind = "render" /\ resp.id = resp.arg)
    /\ \A p \in DOMAIN posts :
         \E pg \in PageParams :
            p \in Ids(get_profile(posts[p].author, posts[p].author, pg))

\* C5 (as claimed): a published post dated now or earlier whose category is
\* absent is shown to every authenticated viewer in the global listing, in
\* its author's profile and on its detail page.
C5_NoCategoryIsVisible ==
    \A p \in DOMAIN posts :
        (/\ posts[p].category = NULL /\ posts[p].is_published
         /\ posts[p].pub_date <= now)
        => \A v \in Users :
              /\ \E pg \in PageParams : p \in Ids(index(v, pg))
              /\ \E pg \in PageParams :
                    p \in Ids(get_profile(v, posts[p].author, pg))
              /\ post_detail(v, p).kind = "render"

\* The post a resource belongs to: the post itself, or a comment's post.
IsPostOp(op) == op \in {"post_edit", "post_delete"}
IsCommentOp(op) == op \in {"comment_edit", "comment_delete"}
Stored(r) ==
    \/ IsPostOp(r.op) /\ r.arg \in DOMAIN posts
    \/ IsCommentOp(r.op) /\ r.arg \in DOMAIN comments
AuthorOf(r) ==
    IF IsPostOp(r.op) THEN posts[r.arg].author ELSE comments[r.arg].author
PostOf(r) == IF IsPostOp(r.op) THEN r.arg ELSE comments[r.arg].post

\* What C3 asks of one step; resp' is the answer given in the step.
C3_Step ==
    LET r == resp'
    IN (r.op \in EditDeleteOps /\ Stored(r)) =>
        /\ (r.viewer # AuthorOf(r)) => UNCHANGED db
        /\ (r.viewer \in Users /\ r.viewer # AuthorOf(r)) =>
              (r.kind = "redirect" /\ r.to = "post_detail")
        /\ (r.viewer = AuthorOf(r) /\ r.op = "post_edit"
            /\ PostForm_is_valid(PostForm(r.data))) =>
              /\ posts' = [posts EXCEPT ![r.arg] =
                             PostInstance(PostForm(r.data), r.viewer)]
              /\ comments' = comments
        /\ (r.viewer = AuthorOf(r) /\ r.op = "comment_edit"
            /\ CommentForm_is_valid(r.data)) =>
              /\ comments' = [comments EXCEPT ![r.arg].text = r.data.text]
              /\ posts' = posts
        /\ (r.viewer = AuthorOf(r) /\ r.op = "post_delete") =>
              r.arg \notin DOMAIN posts'
        /\ (r.viewer = AuthorOf(r) /\ r.op = "comment_delete") =>
              /\ comments' = Without(comments, r.arg)
              /\ posts' = posts

\* C3: in every step that answers an edit or delete request for a stored
\* post or comment: a viewer who is not its author (an authenticated one is
\* redirected to the post detail view) leaves the database as it was, hence
\* only the author changes it; the author's valid edit stores the submitted
\* fields and the author's delete removes the resource.
C3_OnlyAuthorMutates == [][C3_Step]_vars

\* C3 witness: an authenticated viewer who is not the author asked to delete
\* a post that holds a comment, and was redirected; post and comment remain.
C3_Witness ==
    /\ resp.op = "post_delete" /\ resp.kind = "redirect"
    /\ resp.to = "post_detail"
    /\ resp.viewer \in Users
    /\ resp.arg \in DOMAIN posts /\ posts[resp.arg].author # resp.viewer
    /\ \E c \in DOMAIN comments : comments[c].post = resp.arg

\* What C4 asks of one step.
C4_Step ==
    LET r == resp'
    IN (/\ r.viewer = Anonymous
        /\ \/ r.op \in {"post_create", "comment_create"}
           \/ r.op \in EditDeleteOps /\ Stored(r))
       => /\ r.kind = "redirect" /\ r.to = "login"
          /\ UNCHANGED db

\* C4 (as claimed): every step that answers an anonymous viewer's request to
\* create a post or comment, or to edit or delete a stored one, answers with
\* a redirect to the login page and changes nothing.
C4_AnonymousRedirectedToLogin == [][C4_Step]_vars

\* C8 (as claimed): when the ownership guard denies an authenticated viewer,
\* the redirect goes to the detail page of the resource's own post, and that
\* viewer's request for that page renders it.
C8_DenialRedirectRenders ==
    (/\ resp.op \in EditDeleteOps /\ Stored(resp)
     /\ resp.viewer \in Users /\ resp.viewer # AuthorOf(resp))
    => /\ resp.kind = "redirect" /\ resp.to = "post_detail"
       /\ resp.id = PostOf(resp)
       /\ post_detail(resp.viewer, resp.id).kind = "render"

\* What C10 asks of one step.
C10_Step ==
    LET r == resp'
    IN /\ \A p \in DOMAIN posts \cap DOMAIN posts' :
             posts'[p].author = posts[p].author
       /\ \A c \in DOMAIN comments \cap DOMAIN comments' :
             comments'[c].author = comments[c].author
       /\ \A p \in DOMAIN posts' \ DOMAIN posts :
             /\ r.op = "post_create" /\ r.viewer \in Users
             /\ posts'[p].author = r.viewer
       /\ \A c \in DOMAIN comments' \ DOMAIN comments :
             /\ r.op = "comment_create" /\ r.viewer \in Users
             /\ comments'[c].author = r.viewer
             /\ comments'[c].post = r.arg /\ r.arg \in DOMAIN posts
       /\ (/\ r.op = "comment_create" /\ r.viewer \in Users
           /\ CommentForm_is_valid(r.data) /\ r.arg \notin DOMAIN posts)
          => (r.kind = "not_found" /\ comments' = comments)

\* C10: in every step, a post or comment that stays stored keeps its author;
\* a new post is the answer to a post_create request of an authenticated
\* viewer and has that viewer as author, whatever author was submitted; a
\* new comment has the requesting authenticated viewer as author and the
\* stored post named by the URL as post; a valid comment submitted by an
\* authenticated viewer for a post that is not stored is answered not-found
\* and stores nothing.
C10_AuthorFixedAtCreation == [][C10_Step]_vars

\* C10 witness: a post was just created by a viewer who submitted another
\* user as author; the stored author is the viewer.
C10_Witness ==
    /\ resp.op = "post_create" /\ resp.kind = "redirect"
    /\ resp.data.author # resp.viewer
    /\ (nextPost - 1) \in DOMAIN posts
    /\ posts[nextPost - 1].author = resp.viewer

RefIntegrity ==
    /\ \A c \in DOMAIN comments : comments[c].post \in DOMAIN posts
    /\ \A p \in DOMAIN posts :
          /\ posts[p].category \in DOMAIN categories \cup {NULL}
          /\ posts[p].location \in DOMAIN locations \cup {NULL}

\* What C6 asks of one step.
C6_Step ==
    LET r == resp'
    IN /\ (r.op = "post_delete" /\ r.kind = "redirect" /\ r.to = "index") =>
             /\ DOMAIN posts' = DOMAIN posts \ {r.arg}
             /\ \A p \in DOMAIN posts' : posts'[p] = posts[p]
             /\ DOMAIN comments' =
                   {c \in DOMAIN comments : comments[c].post # r.arg}
             /\ \A c \in DOMAIN comments' : comments'[c] = comments[c]
       /\ r.op = "admin_delete_category" =>
             /\ r.arg \notin DOMAIN categories'
             /\ DOMAIN posts' = DOMAIN posts
             /\ \A p \in DOMAIN posts :
                   /\ posts'[p].category =
                         IF posts[p].category = r.arg THEN NULL
                         ELSE posts[p].category
                   /\ [posts'[p] EXCEPT !.category = NULL]
                         = [posts[p] EXCEPT !.category = NULL]
             /\ comments' = comments
       /\ r.op = "admin_delete_location" =>
             /\ r.arg \notin DOMAIN locations'
             /\ DOMAIN posts' = DOMAIN posts
             /\ \A p \in DOMAIN posts :
                   /\ posts'[p].location =
                         IF posts[p].location = r.arg THEN NULL
                         ELSE posts[p].location
                   /\ [posts'[p] EXCEPT !.location = NULL]
                         = [posts[p] EXCEPT !.location = NULL]
             /\ comments' = comments
       /\ RefIntegrity'

\* C6: a step that deletes a post removes that post, the comments on it and
\* no other comment; a step that deletes a category (a location) keeps every
\* post, nulls the category (location) of the posts that referred to it and
\* changes no other field; after every step each comment refers to a stored
\* post and each category or location reference is null or stored.
C6_DeletePolicies == [][C6_Step]_vars

\* C6 witness: a post was just deleted, one of two comments went with it and
\* the other, on another post, remains; that post lost its category to an
\* earlier deletion and still has its location.
C6_Witness ==
    /\ resp.op = "post_delete" /\ resp.to = "index"
    /\ nextComment = 3 /\ Cardinality(DOMAIN comments) = 1
    /\ \E p \in DOMAIN posts :
          /\ posts[p].category = NULL /\ posts[p].location # NULL
          /\ \E c \in DOMAIN comments : comments[c].post = p
    /\ nextCategory = 2 /\ categories = Empty

\* The page get_page serves for page parameter p of a listing of np pages.
Served(p, np) ==
    IF p.t # "int" THEN 1
    ELSE IF p.n < 1 \/ p.n > np THEN np
    ELSE p.n

Nearest(p, np) ==
    IF p.n < 1 THEN 1 ELSE IF p.n > np THEN np ELSE p.n

\* The listings that are produced: the viewer passed login_required (index,
\* category_posts), the category is stored and published, the user exists.
Produced(op, viewer, arg) ==
    CASE op = "index" -> viewer \in Users
      [] op = "category_posts" ->
            /\ viewer \in Users /\ arg \in DOMAIN categories
            /\ categories[arg].is_published
      [] op = "get_profile" -> arg \in Users
      [] OTHER -> FALSE

\* C7 (amended): every produced listing renders a page whatever the page
\* parameter: a missing or non-numeric parameter gives page 1, a number in
\* 1..num_pages that page, and every other number (0 and negative numbers
\* included) the last page.
C7_PageClampsToLast ==
    /\ (resp.op \in ListingOps /\ Produced(resp.op, resp.viewer, resp.arg))
         => /\ resp.kind = "render"
            /\ resp.num_pages >= 1
            /\ resp.number = Served(resp.page, resp.num_pages)
    /\ \A v \in Viewers, pg \in PageParams :
         /\ Produced("index", v, NULL) => index(v, pg).kind = "render"
         /\ \A c \in Slugs : Produced("category_posts", v, c) =>
               category_posts(v, c, pg).kind = "render"
         /\ \A u \in Users : get_profile(v, u, pg).kind = "render"

\* C7 witness: page 0 of a two-page listing was requested; page 2 was served.
C7_Witness ==
    /\ resp.op \in ListingOps /\ resp.kind = "render"
    /\ resp.page.t = "int" /\ resp.page.n = 0
    /\ resp.num_pages = 2 /\ resp.number = 2 /\ Len(resp.items) >= 1

\* C7 (as claimed): a number outside the valid range gives the nearest valid
\* page, so 0 and negative numbers give page 1.
C7_PageClampsToNearest ==
    (resp.op \in ListingOps /\ Produced(resp.op, resp.viewer, resp.arg))
    => /\ resp.kind = "render"
       /\ resp.number \in 1..resp.num_pages
       /\ resp.page.t = "int" =>
             resp.number = Nearest(resp.page, resp.num_pages)

RECURSIVE Flatten(_, _)
Flatten(f, k) == IF k = 0 THEN <<>> ELSE Flatten(f, k - 1) \o f[k]

\* What C9 asks of the pages f[1..np] of a listing of the posts in S.
Partition(f, np, S) ==
    LET all == Flatten(f, np)
    IN /\ \A k \in 1..np :
             /\ Len(f[k]) <= 10
             /\ k < np => Len(f[k]) = 10
       /\ Len(all) = Cardinality(S)
       /\ {all[i].id : i \in 1..Len(all)} = S
       /\ \A i \in 1..Len(all) :
             /\ all[i].pub_date = posts[all[i].id].pub_date
             /\ i < Len(all) => all[i].pub_date >= all[i + 1].pub_date
             /\ all[i].comment_count =
                   Cardinality({c \in DOMAIN comments :
                                   comments[c].post = all[i].id})

Shown(p) ==
    /\ posts[p].is_published /\ posts[p].pub_date <= now
    /\ posts[p].category \in DOMAIN categories
    /\ categories[posts[p].category].is_published

IntPage(k) == [t |-> "int", n |-> k]

====
